---- MODULE Spec2Model ----
(***************************************************************************)
(* The process subsystem of the os5 kernel (task/pid.rs, task/manager.rs,  *)
(* task/processor.rs, task/task.rs, task/mod.rs) as a state machine.       *)
(*                                                                         *)
(* A TCB is a heap object (an Arc<TaskControlBlock>); it is named here by  *)
(* the slot it lives in, 1..MaxTasks.  tcb is the heap: its domain is the  *)
(* set of TCBs that have not been destroyed.  An Option is a sequence of   *)
(* length 0 (None) or 1 (Some).  A Weak reference whose referent has been  *)
(* destroyed is <<0>>.                                                     *)
(*                                                                         *)
(* The kernel is not preemptible and there is one processor, so every      *)
(* kernel entry (a syscall, one iteration of run_tasks) is one step.       *)
(* A Rust panic halts the kernel: panicked # "" and no step follows.  The  *)
(* assignments made before the panic stay in the state.                    *)
(*                                                                         *)
(* usize arithmetic is modelled on the naturals (pass never gets near      *)
(* 2^64 within the bounds); `x as i8` and `x as u8` keep their width.      *)
(* The usize subtraction in fetch wraps (release build, the build the      *)
(* kernel is run with).                                                    *)
(***************************************************************************)
EXTENDS Integers, Sequences, FiniteSets, TLC

VARIABLES
  tcb,            \* heap of TaskControlBlocks: slot -> fields (pid + inner)
  ready_queue,    \* TASK_MANAGER.ready_queue: sequence of slots
  current,        \* PROCESSOR.current: Option of a slot
  PID_ALLOCATOR,  \* [current, recycled]
  INITPROC,       \* the lazy static: <<>> before first use, then <<slot>>
  kernel_stacks,  \* pids whose kernel stack is mapped in KERNEL_SPACE
  panicked,       \* "" or the reason the kernel halted
  ret,            \* what the last step returned to its caller
  script          \* position of the user programs of a scripted run

vars == <<tcb, ready_queue, current, PID_ALLOCATOR, INITPROC, kernel_stacks,
          panicked, ret, script>>

(* ------------------------------ bounds -------------------------------- *)
\* TCBs alive at the same time.
MaxTasks == 3
\* A dispatch that would take a pass beyond MaxPass is not taken.
MaxPass == 30
\* Arguments user programs pass to exit, set_priority and waitpid.
ExitCodes == {42}
PrioArgs == {1, 256}
WaitTargets == {0 - 1} \cup (1 .. MaxTasks - 1)
SpawnApps == {"ch5b_initproc"}
\* the waiting parent: its pass at the start, the child's exit code, the
\* timer interrupts and the largest pass
WaitParentPasses == {0, 120, 135}
WaitCodes == {0 - 1, 42}
MaxTicks == 2
MaxWaitPass == 330
\* fetch on given queues
FetchPasses == {0, 127, 128, 255}
FetchPriorities == {0, 2, 16}
MaxFetchPass == 510
\* two busy-yield tasks: their priorities and the number of fetch calls
StridePriorities == {2, 3, 4, 16, 128, 255}
MaxFetches == 600
\* memory syscalls: the arguments, and the areas of one address space
MmapStarts == {65536, 65537, 69632}
MmapLens == {0, 4096, 4097}
MmapPorts == {0, 5, 8}
MaxAreas == 3

\* the syscall dispatcher: the calls of a run, their ids, the programs named
MaxCalls == 4
ExecApps == {"ch5b_user", "ch5b_none"}

\* a caller of fork and spawn: its priority, its pass, its counter of forks
ChildPriorities == {2, 20}
ChildPasses == {15, 20}
ChildCounts == {0, 3}
ChildApps == {"ch5b_user"}
MaxChildPass == 35

\* the clock of the timer runs: its last value
MaxNow == 3

\* a task that has run for long (9 and 13 dispatches at the default
\* priority): its pass, and the pass up to which tasks are dispatched
LongPasses == {135, 195}
MaxLongPass == 300

\* the priorities the initial process gives itself while its children run
StarvePriorities == {2, 100}

(* --------------------------- program constants ------------------------ *)
BIG_STRIDE == 255
InitPriority == 16
PAGE_SIZE == 4096
\* mm::MapPermission
MapPermission_R == 2
MapPermission_W == 4
MapPermission_X == 8
MapPermission_U == 16
\* the syscall ids of syscall/mod.rs
SYSCALL_EXIT == 93
SYSCALL_YIELD == 124
SYSCALL_SET_PRIORITY == 140
SYSCALL_GETPID == 172
SYSCALL_MUNMAP == 215
SYSCALL_FORK == 220
SYSCALL_EXEC == 221
SYSCALL_MMAP == 222
SYSCALL_WAITPID == 260
SYSCALL_SPAWN == 400
SyscallIds == {SYSCALL_EXIT, SYSCALL_YIELD, SYSCALL_SET_PRIORITY,
               SYSCALL_GETPID, SYSCALL_MUNMAP, SYSCALL_FORK, SYSCALL_EXEC,
               SYSCALL_MMAP, SYSCALL_WAITPID, SYSCALL_SPAWN}
\* the ids issued by the user programs of the dispatcher runs
SysIds == {SYSCALL_EXIT, SYSCALL_YIELD, SYSCALL_GETPID, SYSCALL_FORK,
           SYSCALL_EXEC, SYSCALL_WAITPID, SYSCALL_SPAWN}
\* the applications of the image (loader: APP_NAMES)
InitprocName == "ch5b_initproc"
APP_NAMES == <<"ch5b_initproc", "ch5b_user">>

TCBs == 1 .. MaxTasks
Live == DOMAIN tcb

(* ------------------------------ helpers ------------------------------- *)
Last(s) == s[Len(s)]
Front(s) == SubSeq(s, 1, Len(s) - 1)
\* Vec::remove / VecDeque::remove at a (1-based) index
RemoveAt(s, i) == SubSeq(s, 1, i - 1) \o SubSeq(s, i + 1, Len(s))
Count(s, x) == Cardinality({i \in DOMAIN s : s[i] = x})
Elems(s) == {s[i] : i \in DOMAIN s}

as_u8(x) == x % 256
as_i8(x) == IF x % 256 >= 128 THEN (x % 256) - 256 ELSE x % 256

(* --------------------------- PID allocator ---------------------------- *)
\* Mutant of PidAllocator_alloc: reads the last recycled pid without popping.
PidAllocator_alloc_no_pop(a) ==
  IF a.recycled # <<>>
  THEN [pid |-> Last(a.recycled), alloc |-> a]
  ELSE [pid |-> a.current,
        alloc |-> [current |-> a.current + 1, recycled |-> a.recycled]]

\* Mutant of PidAllocator_alloc: never looks at the recycled list.
PidAllocator_alloc_counter_only(a) ==
  [pid |-> a.current,
   alloc |-> [current |-> a.current + 1, recycled |-> a.recycled]]

\* PidAllocator::alloc: the pid handed out and the allocator afterwards.
PidAllocator_alloc(a) ==
  IF a.recycled # <<>>
  THEN [pid |-> Last(a.recycled),
        alloc |-> [current |-> a.current, recycled |-> Front(a.recycled)]]
  ELSE [pid |-> a.current,
        alloc |-> [current |-> a.current + 1, recycled |-> a.recycled]]

\* PidAllocator::dealloc: ok = FALSE when one of its two assertions fails.
PidAllocator_dealloc(a, pid) ==
  IF pid < a.current /\ pid \notin Elems(a.recycled)
  THEN [ok |-> TRUE,
        alloc |-> [current |-> a.current, recycled |-> Append(a.recycled, pid)]]
  ELSE [ok |-> FALSE, alloc |-> a]

(* ----------------------------- address spaces ------------------------- *)
\* A MemorySet is the sequence of its areas (Vec<MapArea>), each a range of
\* virtual page numbers [start, end) with its permission bits; a page is
\* mapped when an area holds it.
VirtAddr_floor(va) == va \div PAGE_SIZE
VirtAddr_ceil(va) == (va + PAGE_SIZE - 1) \div PAGE_SIZE

\* VPNRange::new(start, end): the pages start .. end - 1
VPNRange(start, end) == start .. (end - 1)

\* MemorySet::translate(vpn): the permissions of the valid entry, or none
MemorySet_translate(ms, vpn) ==
  IF \E i \in DOMAIN ms : vpn \in VPNRange(ms[i].start, ms[i].end)
  THEN <<ms[CHOOSE i \in DOMAIN ms :
               vpn \in VPNRange(ms[i].start, ms[i].end)].perm>>
  ELSE <<>>

\* MemorySet::insert_framed_area(start_va, end_va, permission)
insert_framed_area(ms, start_va, end_va, permission) ==
  Append(ms, [start |-> VirtAddr_floor(start_va),
              end |-> VirtAddr_ceil(end_va), perm |-> permission])

\* MemorySet::remove_area_with_start_vpn(vpn): the first area that starts
\* at vpn is unmapped and removed.
remove_area_with_start_vpn(ms, vpn) ==
  IF \E i \in DOMAIN ms : ms[i].start = vpn
  THEN RemoveAt(ms, CHOOSE i \in DOMAIN ms :
                      /\ ms[i].start = vpn
                      /\ \A j \in 1 .. i - 1 : ms[j].start # vpn)
  ELSE ms

\* MemorySet::from_existed_user: a copy, area by area
from_existed_user(ms) == ms

\* MemorySet::recycle_data_pages: the areas are cleared
recycle_data_pages(ms) == <<>>

\* MemorySet::from_elf(elf_data): the address space of an application, its
\* user stack pointer and its entry point.
from_elf(app) ==
  IF app = InitprocName
  THEN [memory_set |-> <<[start |-> 18, end |-> 19,
                          perm |-> MapPermission_R + MapPermission_X
                                   + MapPermission_U]>>,
        user_sp |-> 20 * PAGE_SIZE, entry_point |-> 18 * PAGE_SIZE]
  ELSE [memory_set |-> <<[start |-> 18, end |-> 20,
                          perm |-> MapPermission_R + MapPermission_X
                                   + MapPermission_U]>>,
        user_sp |-> 21 * PAGE_SIZE, entry_point |-> 18 * PAGE_SIZE + 4]

\* loader::get_app_data_by_name
get_app_data_by_name(name) ==
  IF \E i \in DOMAIN APP_NAMES : APP_NAMES[i] = name THEN <<name>> ELSE <<>>

\* TrapContext::app_init_context(entry, sp, .., kernel_sp, ..); a kernel
\* stack is named by its pid.
app_init_context(entry_point, user_sp, kernel_sp) ==
  [entry_point |-> entry_point, user_sp |-> user_sp, kernel_sp |-> kernel_sp]

NoSyscalls == [k \in SyscallIds |-> 0]

(* -------------------------- task control blocks ----------------------- *)
\* TaskControlBlock::new(elf_data): the fields of the TCB, with its pid.
\* trap_cx_ppn is named by the address space it was translated in.
TaskControlBlock_new(pid) ==
  LET elf == from_elf(InitprocName)
  IN [pid |-> pid, task_status |-> "Ready", parent |-> <<>>,
      children |-> <<>>, exit_code |-> 0, priority |-> InitPriority,
      pass |-> 0, memory_set |-> elf.memory_set,
      trap_cx_ppn |-> <<pid, InitprocName>>, base_size |-> elf.user_sp,
      trap_cx |-> app_init_context(elf.entry_point, elf.user_sp, pid),
      start_time |-> 0, syscall_times |-> NoSyscalls]

\* Mutant of fork_of: the child inherits the priority of its parent.
fork_of_inherits_priority(parent, p, pid) ==
  [pid |-> pid, task_status |-> "Ready", parent |-> <<p>>, children |-> <<>>,
   exit_code |-> 0, priority |-> parent.priority, pass |-> 0,
   memory_set |-> from_existed_user(parent.memory_set),
   trap_cx_ppn |-> <<pid, parent.trap_cx_ppn[2]>>,
   base_size |-> parent.base_size,
   trap_cx |-> [parent.trap_cx EXCEPT !.kernel_sp = pid],
   start_time |-> 0, syscall_times |-> NoSyscalls]

\* TaskControlBlock::fork: the fields of the child of parent (slot p).
fork_of(parent, p, pid) ==
  [pid |-> pid, task_status |-> "Ready", parent |-> <<p>>, children |-> <<>>,
   exit_code |-> 0, priority |-> InitPriority, pass |-> 0,
   memory_set |-> from_existed_user(parent.memory_set),
   trap_cx_ppn |-> <<pid, parent.trap_cx_ppn[2]>>,
   base_size |-> parent.base_size,
   trap_cx |-> [parent.trap_cx EXCEPT !.kernel_sp = pid],
   start_time |-> 0, syscall_times |-> NoSyscalls]

fork(p, pid) == fork_of(tcb[p], p, pid)

\* TaskControlBlock::spawn: the fields of the child of the TCB in slot p
\* that runs application app.
spawn(p, pid, app) ==
  LET elf == from_elf(app)
  IN [pid |-> pid, task_status |-> "Ready", parent |-> <<p>>,
      children |-> <<>>, exit_code |-> 0, priority |-> InitPriority,
      pass |-> 0, memory_set |-> elf.memory_set,
      trap_cx_ppn |-> <<pid, app>>, base_size |-> tcb[p].base_size,
      trap_cx |-> app_init_context(elf.entry_point, elf.user_sp, pid),
      start_time |-> 0, syscall_times |-> NoSyscalls]

\* Mutant of is_zombie: takes every task that is not running for a zombie.
is_zombie_not_running(t) == t.task_status # "Running"

\* TaskControlBlockInner::is_zombie
is_zombie(t) == t.task_status = "Zombie"

\* Arc::new: the slot of a new heap object.
NewSlot(heap) == CHOOSE s \in TCBs \ DOMAIN heap :
                   \A r \in TCBs \ DOMAIN heap : s <= r

\* Arc::strong_count of slot t: the owning references to it in the ready
\* queue, PROCESSOR.current, the INITPROC static and the children vectors.
strong_count(t, heap, q, cur, ip) ==
  Count(q, t) + Count(cur, t) + Count(ip, t)
  + Cardinality({pi \in (DOMAIN heap) \X (1 .. MaxTasks + 2) :
                   /\ pi[2] \in DOMAIN heap[pi[1]].children
                   /\ heap[pi[1]].children[pi[2]] = t})

NoRet == [op |-> "none", task |-> 0, arg |-> 0, val |-> 0, code |-> 0]
FreeScript == [mode |-> "free"]

Init ==
  /\ tcb = <<>>
  /\ ready_queue = <<>>
  /\ current = <<>>
  /\ PID_ALLOCATOR = [current |-> 0, recycled |-> <<>>]
  /\ INITPROC = <<>>
  /\ kernel_stacks = {}
  /\ panicked = ""
  /\ ret = NoRet
  /\ script = FreeScript

\* add_initproc, with the first use of INITPROC (TaskControlBlock::new) and
\* add_task.
add_initproc ==
  /\ panicked = ""
  /\ INITPROC = <<>>
  /\ LET a == PidAllocator_alloc(PID_ALLOCATOR)
         s == NewSlot(tcb)
     IN /\ tcb' = (s :> TaskControlBlock_new(a.pid)) @@ tcb
        /\ PID_ALLOCATOR' = a.alloc
        /\ kernel_stacks' = kernel_stacks \cup {a.pid}
        /\ INITPROC' = <<s>>
        /\ ready_queue' = Append(ready_queue, s)
  /\ ret' = NoRet
  /\ UNCHANGED <<current, panicked>>

(* ----------------------------- scheduler ------------------------------ *)
\* Mutant of VecDeque_remove: reads the entry and leaves it in the queue.
VecDeque_remove_keeps(q, idx) == q

\* self.ready_queue.remove(idx) at the end of TaskManager::fetch
VecDeque_remove(q, idx) == RemoveAt(q, idx)

\* Mutant of fetch_scan: round robin, the head of the queue is selected.
fetch_scan_head(q, heap, i, min_pass, idx) == 1

\* The scan loop of TaskManager::fetch from entry i on: the index it ends
\* with.  Entries are numbered from 1 here, from 0 in the code.
RECURSIVE fetch_scan(_, _, _, _, _)
fetch_scan(q, heap, i, min_pass, idx) ==
  IF i > Len(q) THEN idx
  ELSE IF i = 1
       THEN fetch_scan(q, heap, i + 1, heap[q[i]].pass, i)
       ELSE IF as_i8(heap[q[i]].pass - min_pass) < 0
            THEN fetch_scan(q, heap, i + 1, heap[q[i]].pass, i)
            ELSE fetch_scan(q, heap, i + 1, min_pass, idx)

\* TaskManager::fetch on queue q: the task returned, the queue and the heap
\* afterwards, or the panic.  min_pass starts as usize::MAX, which is -1
\* modulo 2^64, and idx as entry 0.  Indexing an empty VecDeque panics, and
\* so does the u8 division by a priority of 0.
TaskManager_fetch(q, heap) ==
  LET idx == fetch_scan(q, heap, 1, 0 - 1, 1)
  IN IF Len(q) = 0
     THEN [panic |-> "Out of bounds access", task |-> <<>>, queue |-> q,
           heap |-> heap]
     ELSE IF heap[q[idx]].priority = 0
     THEN [panic |-> "attempt to divide by zero", task |-> <<>>, queue |-> q,
           heap |-> heap]
     ELSE LET stride == as_u8(BIG_STRIDE) \div heap[q[idx]].priority
          IN [panic |-> "", task |-> <<q[idx]>>, queue |-> VecDeque_remove(q, idx),
              heap |-> [heap EXCEPT ![q[idx]].pass = @ + stride]]

\* TaskManager::add
TaskManager_add(q, t) == Append(q, t)

\* One iteration of the loop of run_tasks.  The idle flow has the processor
\* exactly while no task has been switched to.  A dispatch that takes a pass
\* beyond bound is not taken.
run_tasks_loop(bound) ==
  /\ panicked = ""
  /\ current = <<>>
  /\ LET f == TaskManager_fetch(ready_queue, tcb)
     IN IF f.panic # ""
        THEN /\ panicked' = f.panic
             /\ UNCHANGED <<tcb, ready_queue, current>>
        ELSE /\ f.heap[f.task[1]].pass <= bound
             /\ tcb' = [f.heap EXCEPT ![f.task[1]].task_status = "Running"]
             /\ ready_queue' = f.queue
             /\ current' = f.task
             /\ UNCHANGED panicked
  /\ ret' = NoRet
  /\ UNCHANGED <<PID_ALLOCATOR, INITPROC, kernel_stacks>>

\* run_tasks as the kernel enters it: after add_initproc.
run_tasks_upto(bound) ==
  /\ INITPROC # <<>>
  /\ run_tasks_loop(bound)

run_tasks == run_tasks_upto(MaxPass)

\* Mutant of take_current: clones PROCESSOR.current instead of taking it.
take_current_clones(cur) == [task |-> cur, current |-> cur]

\* Processor::take_current: the task taken and PROCESSOR.current afterwards.
take_current(cur) == [task |-> cur, current |-> <<>>]

\* suspend_current_and_run_next (a yield, or a timer interrupt)
suspend_current_and_run_next ==
  /\ panicked = ""
  /\ current # <<>>
  /\ LET tk == take_current(current)
         t == tk.task[1]
     IN /\ current' = tk.current
        /\ tcb' = [tcb EXCEPT ![t].task_status = "Ready"]
        /\ ready_queue' = TaskManager_add(ready_queue, t)
  /\ ret' = NoRet
  /\ UNCHANGED <<PID_ALLOCATOR, INITPROC, kernel_stacks, panicked>>

(* ------------------------------ destruction --------------------------- *)
\* Dropping the last Arc of a TCB destroys it: its PidHandle (dealloc), its
\* KernelStack (unmap), then its inner with the children vector, which may
\* destroy more.  st = [tcb, alloc, ks, panic]; Weak references to a
\* destroyed TCB no longer upgrade.
RECURSIVE drop_unowned(_, _, _, _)
drop_unowned(st, q, cur, ip) ==
  LET dead == {t \in DOMAIN st.tcb : strong_count(t, st.tcb, q, cur, ip) = 0}
  IN IF dead = {} \/ st.panic # "" THEN st
     ELSE LET t == CHOOSE x \in dead : \A y \in dead : x <= y
              d == PidAllocator_dealloc(st.alloc, st.tcb[t].pid)
              heap1 == [s \in DOMAIN st.tcb \ {t} |->
                          [st.tcb[s] EXCEPT
                             !.parent = IF @ = <<t>> THEN <<0>> ELSE @]]
          IN IF ~d.ok
             THEN [st EXCEPT !.panic = "pid has been deallocated"]
             ELSE drop_unowned([tcb |-> heap1, alloc |-> d.alloc,
                                ks |-> st.ks \ {st.tcb[t].pid}, panic |-> ""],
                               q, cur, ip)

(* -------------------------------- exit -------------------------------- *)
\* Mutant of reparent: pushes the children to INITPROC.children and leaves
\* their parent references as they were.
RECURSIVE reparent_keeps_parent(_, _, _, _)
reparent_keeps_parent(heap, t, ip, i) ==
  IF i > Len(heap[t].children) THEN heap
  ELSE reparent_keeps_parent(
         [heap EXCEPT ![ip].children = Append(@, heap[t].children[i])],
         t, ip, i + 1)

\* The loop of exit_current_and_run_next over the children of t from the
\* i-th on: each gets parent = INITPROC and is pushed to INITPROC.children.
RECURSIVE reparent(_, _, _, _)
reparent(heap, t, ip, i) ==
  IF i > Len(heap[t].children) THEN heap
  ELSE LET c == heap[t].children[i]
       IN reparent([heap EXCEPT ![c].parent = <<ip>>,
                                ![ip].children = Append(@, c)],
                   t, ip, i + 1)

\* Mutant of clear_children: the exiting task keeps its children vector.
clear_children_forgotten(heap, t) == heap

\* inner.children.clear() of exit_current_and_run_next
clear_children(heap, t) == [heap EXCEPT ![t].children = <<>>]

\* Mutant of mark_zombie: the exit code is recorded, the status is not.
mark_zombie_without_status(heap, t, exit_code) ==
  [heap EXCEPT ![t].exit_code = exit_code]

\* The status and exit code assignments of exit_current_and_run_next
mark_zombie(heap, t, exit_code) ==
  [heap EXCEPT ![t].task_status = "Zombie", ![t].exit_code = exit_code]

\* exit_current_and_run_next(exit_code).  INITPROC's inner cell is borrowed
\* while the exiting task's own inner is still borrowed: when the exiting
\* task is INITPROC the second borrow panics.
exit_current_and_run_next(exit_code) ==
  /\ panicked = ""
  /\ current # <<>>
  /\ LET tk == take_current(current)
         t == tk.task[1]
         heap1 == mark_zombie(tcb, t, exit_code)
     IN /\ current' = tk.current
        /\ IF INITPROC = <<t>>
           THEN /\ tcb' = heap1
                /\ panicked' = "already borrowed: BorrowMutError"
                /\ UNCHANGED <<PID_ALLOCATOR, kernel_stacks>>
           ELSE LET heap2 == reparent(heap1, t, INITPROC[1], 1)
                    heap3 == clear_children(heap2, t)
                    heap4 == [heap3 EXCEPT ![t].memory_set =
                                             recycle_data_pages(@)]
                    st == drop_unowned([tcb |-> heap4, alloc |-> PID_ALLOCATOR,
                                        ks |-> kernel_stacks, panic |-> ""],
                                       ready_queue, tk.current, INITPROC)
                IN /\ tcb' = st.tcb
                   /\ PID_ALLOCATOR' = st.alloc
                   /\ kernel_stacks' = st.ks
                   /\ panicked' = st.panic
  /\ ret' = NoRet
  /\ UNCHANGED <<ready_queue, INITPROC>>

(* --------------------------- process syscalls ------------------------- *)
\* The common part of fork and spawn: with the pid of pid_alloc, the kernel
\* stack is mapped (KernelStack::new), the child is put in the heap
\* (Arc::new) and pushed to the parent's children.
create_child(p, child, a) ==
  /\ tcb' = (NewSlot(tcb) :> child) @@
               [tcb EXCEPT ![p].children = Append(@, NewSlot(tcb))]
  /\ PID_ALLOCATOR' = a.alloc
  /\ kernel_stacks' = kernel_stacks \cup {a.pid}

\* sys_fork: fork of the current task, add_task of the child; the child's
\* pid goes back to the caller.
sys_fork ==
  /\ panicked = ""
  /\ current # <<>>
  /\ Live # TCBs
  /\ LET a == PidAllocator_alloc(PID_ALLOCATOR)
     IN /\ create_child(current[1], fork(current[1], a.pid), a)
        /\ ready_queue' = TaskManager_add(ready_queue, NewSlot(tcb))
        /\ ret' = [op |-> "fork", task |-> current[1], arg |-> 0,
                   val |-> a.pid, code |-> 0]
  /\ UNCHANGED <<current, INITPROC, panicked>>

\* sys_spawn: spawn by the current task, add_task of the child.
sys_spawn(app) ==
  /\ panicked = ""
  /\ current # <<>>
  /\ Live # TCBs
  /\ LET a == PidAllocator_alloc(PID_ALLOCATOR)
     IN /\ create_child(current[1], spawn(current[1], a.pid, app), a)
        /\ ready_queue' = TaskManager_add(ready_queue, NewSlot(tcb))
        /\ ret' = [op |-> "spawn", task |-> current[1], arg |-> 0,
                   val |-> a.pid, code |-> 0]
  /\ UNCHANGED <<current, INITPROC, panicked>>

\* The children of p (by index) that waitpid(target) matches.
waitpid_matches(heap, p, target) ==
  {i \in DOMAIN heap[p].children :
     target = 0 - 1 \/ heap[heap[p].children[i]].pid = target}

\* sys_waitpid(target) by the current task.
sys_waitpid(target) ==
  /\ panicked = ""
  /\ current # <<>>
  /\ LET p == current[1]
         m == waitpid_matches(tcb, p, target)
         z == {i \in m : is_zombie(tcb[tcb[p].children[i]])}
     IN IF m = {}
        THEN /\ ret' = [op |-> "waitpid", task |-> p, arg |-> target,
                        val |-> 0 - 1, code |-> 0]
             /\ UNCHANGED <<tcb, PID_ALLOCATOR, kernel_stacks, panicked>>
        ELSE IF z = {}
        THEN /\ ret' = [op |-> "waitpid", task |-> p, arg |-> target,
                        val |-> 0 - 2, code |-> 0]
             /\ UNCHANGED <<tcb, PID_ALLOCATOR, kernel_stacks, panicked>>
        ELSE \E i \in z :
               LET c == tcb[p].children[i]
                   heap1 == [tcb EXCEPT ![p].children = RemoveAt(@, i)]
                   st == drop_unowned([tcb |-> heap1, alloc |-> PID_ALLOCATOR,
                                       ks |-> kernel_stacks, panic |-> ""],
                                      ready_queue, current, INITPROC)
               IN /\ ret' = [op |-> "waitpid", task |-> p, arg |-> target,
                             val |-> tcb[c].pid, code |-> tcb[c].exit_code]
                  /\ tcb' = st.tcb
                  /\ PID_ALLOCATOR' = st.alloc
                  /\ kernel_stacks' = st.ks
                  /\ panicked' = st.panic
  /\ UNCHANGED <<ready_queue, current, INITPROC>>

\* set_priority(_prio) by the current task.
set_priority(prio) ==
  /\ panicked = ""
  /\ current # <<>>
  /\ IF prio < 2
     THEN /\ ret' = [op |-> "set_priority", task |-> current[1],
                     arg |-> prio, val |-> 0 - 1, code |-> 0]
          /\ UNCHANGED tcb
     ELSE /\ tcb' = [tcb EXCEPT ![current[1]].priority = as_u8(prio)]
          /\ ret' = [op |-> "set_priority", task |-> current[1],
                     arg |-> prio, val |-> prio, code |-> 0]
  /\ UNCHANGED <<ready_queue, current, PID_ALLOCATOR, INITPROC, kernel_stacks,
                 panicked>>

(* ------------------------------ mmap, munmap -------------------------- *)
\* The pages the loops of mmap and munmap go through:
\* VPNRange::new(VirtPageNum::from(start_address), end_address.ceil())
mmap_range(start, len) ==
  VPNRange(VirtAddr_floor(start), VirtAddr_ceil(start + len))

\* Mutant of mmap_invalid: a port without R, W and X is let through.
mmap_invalid_but_no_permission(start, port) ==
  (start % PAGE_SIZE # 0) \/ (port \div 8 # 0)

\* The first test of mmap:
\* (_start % PAGE_SIZE != 0) || (_port & !0x7 != 0) || (_port & 0x7 == 0)
mmap_invalid(start, port) ==
  (start % PAGE_SIZE # 0) \/ (port \div 8 # 0) \/ (port % 8 = 0)

\* mmap(_start, _len, _port) by the current task.
mmap(start, len, port) ==
  /\ panicked = ""
  /\ current # <<>>
  /\ LET t == current[1]
         ms == tcb[t].memory_set
         map_permission == ((as_u8(port) * 2) % 256) + MapPermission_U
     IN IF mmap_invalid(start, port)
        THEN /\ ret' = [op |-> "mmap", task |-> t, arg |-> <<start, len, port>>,
                        val |-> 0 - 1, code |-> 0]
             /\ UNCHANGED tcb
        ELSE IF \E vpn \in mmap_range(start, len) :
                  MemorySet_translate(ms, vpn) # <<>>
        THEN /\ ret' = [op |-> "mmap", task |-> t, arg |-> <<start, len, port>>,
                        val |-> 0 - 1, code |-> 0]
             /\ UNCHANGED tcb
        ELSE /\ tcb' = [tcb EXCEPT ![t].memory_set =
                          insert_framed_area(ms, start, start + len,
                                             map_permission)]
             /\ ret' = [op |-> "mmap", task |-> t, arg |-> <<start, len, port>>,
                        val |-> 0, code |-> 0]
  /\ UNCHANGED <<ready_queue, current, PID_ALLOCATOR, INITPROC, kernel_stacks,
                 panicked>>

\* The second loop of munmap: remove_area_with_start_vpn for each page.
RECURSIVE munmap_remove(_, _, _)
munmap_remove(ms, vpn, end) ==
  IF vpn >= end THEN ms
  ELSE munmap_remove(remove_area_with_start_vpn(ms, vpn), vpn + 1, end)

\* munmap(_start, _len) by the current task.
munmap(start, len) ==
  /\ panicked = ""
  /\ current # <<>>
  /\ LET t == current[1]
         ms == tcb[t].memory_set
     IN IF start % PAGE_SIZE # 0
        THEN /\ ret' = [op |-> "munmap", task |-> t, arg |-> <<start, len>>,
                        val |-> 0 - 1, code |-> 0]
             /\ UNCHANGED tcb
        ELSE IF \E vpn \in mmap_range(start, len) :
                  MemorySet_translate(ms, vpn) = <<>>
        THEN /\ ret' = [op |-> "munmap", task |-> t, arg |-> <<start, len>>,
                        val |-> 0 - 1, code |-> 0]
             /\ UNCHANGED tcb
        ELSE /\ tcb' = [tcb EXCEPT ![t].memory_set =
                          munmap_remove(ms, VirtAddr_floor(start),
                                        VirtAddr_ceil(start + len))]
             /\ ret' = [op |-> "munmap", task |-> t, arg |-> <<start, len>>,
                        val |-> 0, code |-> 0]
  /\ UNCHANGED <<ready_queue, current, PID_ALLOCATOR, INITPROC, kernel_stacks,
                 panicked>>

Next ==
  \/ add_initproc /\ UNCHANGED script
  \/ run_tasks /\ UNCHANGED script
  \/ suspend_current_and_run_next /\ UNCHANGED script
  \/ \E code \in ExitCodes : exit_current_and_run_next(code) /\ UNCHANGED script
  \/ sys_fork /\ UNCHANGED script
  \/ \E app \in SpawnApps : sys_spawn(app) /\ UNCHANGED script
  \/ \E target \in WaitTargets : sys_waitpid(target) /\ UNCHANGED script
  \/ \E prio \in PrioArgs : set_priority(prio) /\ UNCHANGED script

Spec == Init /\ [][Next]_vars

(* ------------------- a parent waiting for its child -------------------- *)
\* The user programs of the scenario: the initial process forks, then calls
\* waitpid for the child and yields each time the answer is -2; the child
\* exits with script.code.  Timer interrupts suspend whichever task runs, at
\* most MaxTicks times.  script holds the programs' positions.
InitWait ==
  /\ \E pass \in WaitParentPasses :
       tcb = (1 :> [TaskControlBlock_new(0) EXCEPT !.pass = pass])
  /\ ready_queue = <<1>>
  /\ current = <<>>
  /\ PID_ALLOCATOR = [current |-> 1, recycled |-> <<>>]
  /\ INITPROC = <<1>>
  /\ kernel_stacks = {0}
  /\ panicked = ""
  /\ ret = NoRet
  /\ \E code \in WaitCodes, any \in BOOLEAN :
       script = [mode |-> "wait", parent |-> "fork", child |-> <<>>,
                 childpid |-> 0 - 1, any |-> any, code |-> code,
                 retries |-> 0, ticks |-> 0]

WaitParentRuns == script.mode = "wait" /\ current = INITPROC

WaitFork ==
  /\ WaitParentRuns
  /\ script.parent = "fork"
  /\ sys_fork
  /\ script' = [script EXCEPT !.parent = "waitpid",
                              !.child = <<NewSlot(tcb)>>,
                              !.childpid = ret'.val]

WaitCall ==
  /\ WaitParentRuns
  /\ script.parent = "waitpid"
  /\ sys_waitpid(IF script.any THEN 0 - 1 ELSE script.childpid)
  /\ script' = IF ret'.val = 0 - 2
               THEN [script EXCEPT !.parent = "yield",
                                   !.retries = @ + 1]
               ELSE IF ret'.val = script.childpid
               THEN [script EXCEPT !.parent = "done"]
               ELSE [script EXCEPT !.parent = "failed"]

WaitYield ==
  /\ WaitParentRuns
  /\ script.parent = "yield"
  /\ suspend_current_and_run_next
  /\ script' = [script EXCEPT !.parent = "waitpid"]

WaitChildExit ==
  /\ script.mode = "wait"
  /\ current # <<>>
  /\ current = script.child
  /\ exit_current_and_run_next(script.code)
  /\ UNCHANGED script

WaitTimer ==
  /\ script.mode = "wait"
  /\ script.ticks < MaxTicks
  /\ suspend_current_and_run_next
  /\ script' = [script EXCEPT !.ticks = @ + 1]

WaitDispatch ==
  /\ script.mode = "wait"
  /\ run_tasks_upto(MaxWaitPass)
  /\ UNCHANGED script

\* what the processor does by itself: the idle flow and the instructions
\* of the task that runs
WaitProgress ==
  \/ WaitDispatch
  \/ WaitFork
  \/ WaitCall
  \/ WaitYield
  \/ WaitChildExit

NextWait ==
  \/ WaitDispatch
  \/ WaitFork
  \/ WaitCall
  \/ WaitYield
  \/ WaitChildExit
  \/ WaitTimer

\* The processor keeps executing: run_tasks loops for ever and a task that
\* has the processor executes its next instruction.
SpecWait == InitWait /\ [][NextWait]_vars /\ WF_vars(WaitProgress)

(* ------------------------ fetch on given queues ------------------------ *)
\* The task manager as TaskManager::new leaves it (no task), or the initial
\* process and its children, all Ready and queued in any order, with passes
\* and priorities drawn from FetchPasses and FetchPriorities; the idle flow
\* fetches.
FetchHeap(n, ps, prs) ==
  [t \in 1 .. n |->
     IF t = 1
     THEN [TaskControlBlock_new(0) EXCEPT
             !.children = [i \in 1 .. n - 1 |-> i + 1],
             !.priority = prs[t], !.pass = ps[t]]
     ELSE [fork_of(TaskControlBlock_new(0), 1, t - 1) EXCEPT
             !.priority = prs[t], !.pass = ps[t]]]

InitFetch ==
  /\ \E n \in 0 .. MaxTasks :
       /\ \E ps \in [1 .. n -> FetchPasses], prs \in [1 .. n -> FetchPriorities] :
            tcb = FetchHeap(n, ps, prs)
       /\ \E q \in [1 .. n -> 1 .. n] :
            /\ \A i, j \in 1 .. n : q[i] = q[j] => i = j
            /\ ready_queue = q
       /\ PID_ALLOCATOR = [current |-> n, recycled |-> <<>>]
       /\ kernel_stacks = 0 .. n - 1
       /\ INITPROC = IF n = 0 THEN <<>> ELSE <<1>>
  /\ current = <<>>
  /\ panicked = ""
  /\ ret = NoRet
  /\ script = [mode |-> "fetch"]

NextFetch == run_tasks_loop(MaxFetchPass) /\ UNCHANGED script

SpecFetch == InitFetch /\ [][NextFetch]_vars

(* ------------------------- two busy-yield tasks ------------------------ *)
\* Two tasks with priorities drawn from StridePriorities, both Ready and
\* queued with pass 0; each yields as soon as it has been dispatched.
\* script counts the fetch calls and how often each task was selected.
InitStride ==
  /\ \E p1, p2 \in StridePriorities :
       tcb = FetchHeap(2, <<0, 0>>, <<p1, p2>>)
  /\ \E q \in {<<1, 2>>, <<2, 1>>} : ready_queue = q
  /\ PID_ALLOCATOR = [current |-> 2, recycled |-> <<>>]
  /\ kernel_stacks = {0, 1}
  /\ INITPROC = <<1>>
  /\ current = <<>>
  /\ panicked = ""
  /\ ret = NoRet
  /\ script = [mode |-> "stride", fetches |-> 0, selected |-> <<0, 0>>]

StrideFetch ==
  /\ script.mode = "stride"
  /\ script.fetches < MaxFetches
  /\ run_tasks_upto(MaxFetches * BIG_STRIDE)
  /\ script' = IF current' = <<>> THEN script
               ELSE [script EXCEPT !.fetches = @ + 1,
                                   !.selected[current'[1]] = @ + 1]

StrideYield ==
  /\ script.mode = "stride"
  /\ suspend_current_and_run_next
  /\ UNCHANGED script

NextStride ==
  \/ StrideFetch
  \/ StrideYield

SpecStride == InitStride /\ [][NextStride]_vars

(* --------------------------- memory syscalls --------------------------- *)
\* The page table of a MemorySet: the mapped pages with their permissions.
page_table(ms) ==
  [vpn \in UNION {VPNRange(ms[i].start, ms[i].end) : i \in DOMAIN ms} |->
     MemorySet_translate(ms, vpn)[1]]

\* The initial process has been dispatched once and calls mmap and munmap
\* with arguments drawn from MmapStarts, MmapLens and MmapPorts; script
\* keeps the page table as it was before the last mmap.
InitMem ==
  /\ tcb = (1 :> [TaskControlBlock_new(0) EXCEPT
                    !.task_status = "Running",
                    !.pass = BIG_STRIDE \div InitPriority])
  /\ ready_queue = <<>>
  /\ current = <<1>>
  /\ PID_ALLOCATOR = [current |-> 1, recycled |-> <<>>]
  /\ INITPROC = <<1>>
  /\ kernel_stacks = {0}
  /\ panicked = ""
  /\ ret = NoRet
  /\ script = [mode |-> "mem", before |-> <<>>]

MemMmap ==
  /\ script.mode = "mem"
  /\ Len(tcb[current[1]].memory_set) < MaxAreas
  /\ \E start \in MmapStarts, len \in MmapLens, port \in MmapPorts :
       mmap(start, len, port)
  /\ script' = [script EXCEPT
                  !.before = page_table(tcb[current[1]].memory_set)]

MemMunmap ==
  /\ script.mode = "mem"
  /\ \E start \in MmapStarts, len \in MmapLens : munmap(start, len)
  /\ UNCHANGED script

NextMem ==
  \/ MemMmap
  \/ MemMunmap

SpecMem == InitMem /\ [][NextMem]_vars

(* ------------------------- the syscall dispatcher ---------------------- *)
\* Mutant of update_syscall_times: a yield is not counted.
update_syscall_times_but_yield(id) ==
  /\ panicked = ""
  /\ current # <<>>
  /\ tcb' = [tcb EXCEPT ![current[1]].syscall_times[id] =
                          IF id = SYSCALL_YIELD THEN @ ELSE @ + 1]
  /\ UNCHANGED <<ready_queue, current, PID_ALLOCATOR, INITPROC, kernel_stacks,
                 panicked, ret>>

\* update_syscall_times(id): the counter of id of the current task goes up
\* by one.
update_syscall_times(id) ==
  /\ panicked = ""
  /\ current # <<>>
  /\ tcb' = [tcb EXCEPT ![current[1]].syscall_times[id] = @ + 1]
  /\ UNCHANGED <<ready_queue, current, PID_ALLOCATOR, INITPROC, kernel_stacks,
                 panicked, ret>>

\* Mutant of exec: the new program starts with pass 0.
exec_resets_pass(heap, t, app) ==
  LET elf == from_elf(app)
  IN [heap EXCEPT ![t].memory_set = elf.memory_set,
                  ![t].trap_cx_ppn = <<heap[t].pid, app>>,
                  ![t].trap_cx = app_init_context(elf.entry_point,
                                                  elf.user_sp, heap[t].pid),
                  ![t].pass = 0]

\* TaskControlBlock::exec(elf_data) on the TCB in slot t: the heap after it.
exec(heap, t, app) ==
  LET elf == from_elf(app)
  IN [heap EXCEPT ![t].memory_set = elf.memory_set,
                  ![t].trap_cx_ppn = <<heap[t].pid, app>>,
                  ![t].trap_cx = app_init_context(elf.entry_point,
                                                  elf.user_sp, heap[t].pid)]

\* sys_exec(path): exec of the named application by the current task, 0; or
\* -1 when there is no application of that name.
sys_exec(app) ==
  /\ panicked = ""
  /\ current # <<>>
  /\ IF get_app_data_by_name(app) # <<>>
     THEN /\ tcb' = exec(tcb, current[1], get_app_data_by_name(app)[1])
          /\ ret' = [op |-> "exec", task |-> current[1], arg |-> app,
                     val |-> 0, code |-> 0]
     ELSE /\ ret' = [op |-> "exec", task |-> current[1], arg |-> app,
                     val |-> 0 - 1, code |-> 0]
          /\ UNCHANGED tcb
  /\ UNCHANGED <<ready_queue, current, PID_ALLOCATOR, INITPROC, kernel_stacks,
                 panicked>>

\* sys_getpid: the pid of the current task.
sys_getpid ==
  /\ panicked = ""
  /\ current # <<>>
  /\ ret' = [op |-> "getpid", task |-> current[1], arg |-> 0,
             val |-> tcb[current[1]].pid, code |-> 0]
  /\ UNCHANGED <<tcb, ready_queue, current, PID_ALLOCATOR, INITPROC,
                 kernel_stacks, panicked>>

\* User programs issue at most MaxCalls syscalls with ids in SysIds.
\* script.pending is the position in syscall(): <<id>> between
\* update_syscall_times(id) and the match on id, <<>> outside the handler.
\* script.issued counts, for every TCB, the syscalls it has issued by id
\* since it was created.
InitSys ==
  /\ tcb = <<>>
  /\ ready_queue = <<>>
  /\ current = <<>>
  /\ PID_ALLOCATOR = [current |-> 0, recycled |-> <<>>]
  /\ INITPROC = <<>>
  /\ kernel_stacks = {}
  /\ panicked = ""
  /\ ret = NoRet
  /\ script = [mode |-> "sys", pending |-> <<>>, calls |-> 0,
               issued |-> [s \in TCBs |-> NoSyscalls]]

SysIdle == script.mode = "sys" /\ script.pending = <<>>

SysBoot == SysIdle /\ add_initproc /\ UNCHANGED script

SysRun == SysIdle /\ run_tasks /\ UNCHANGED script

\* a timer interrupt: not a syscall
SysTimer == SysIdle /\ suspend_current_and_run_next /\ UNCHANGED script

\* syscall(id, args), up to the match
SysEnter ==
  /\ SysIdle
  /\ script.calls < MaxCalls
  /\ \E id \in SysIds :
       /\ id \in {SYSCALL_FORK, SYSCALL_SPAWN} => Live # TCBs
       /\ update_syscall_times(id)
       /\ script' = [script EXCEPT !.pending = <<id>>,
                                   !.calls = @ + 1,
                                   !.issued[current[1]][id] = @ + 1]

\* the return from the handler: TCBs created by it have issued nothing
SysLeave ==
  script' = [script EXCEPT
               !.pending = <<>>,
               !.issued = [s \in TCBs |->
                             IF s \in DOMAIN tcb /\ s \in DOMAIN tcb'
                             THEN @[s] ELSE NoSyscalls]]

SysPending(id) == script.mode = "sys" /\ script.pending = <<id>>

SysExit ==
  /\ SysPending(SYSCALL_EXIT)
  /\ \E code \in ExitCodes : exit_current_and_run_next(code)
  /\ SysLeave

SysYield ==
  /\ SysPending(SYSCALL_YIELD)
  /\ suspend_current_and_run_next
  /\ SysLeave

SysGetpid == SysPending(SYSCALL_GETPID) /\ sys_getpid /\ SysLeave

SysFork == SysPending(SYSCALL_FORK) /\ sys_fork /\ SysLeave

SysExec ==
  /\ SysPending(SYSCALL_EXEC)
  /\ \E app \in ExecApps : sys_exec(app)
  /\ SysLeave

SysWaitpid ==
  /\ SysPending(SYSCALL_WAITPID)
  /\ \E target \in WaitTargets : sys_waitpid(target)
  /\ SysLeave

SysSpawn ==
  /\ SysPending(SYSCALL_SPAWN)
  /\ \E app \in ExecApps :
       /\ get_app_data_by_name(app) # <<>>
       /\ sys_spawn(app)
  /\ SysLeave

NextSys ==
  \/ SysBoot
  \/ SysRun
  \/ SysTimer
  \/ SysEnter
  \/ SysExit
  \/ SysYield
  \/ SysGetpid
  \/ SysFork
  \/ SysExec
  \/ SysWaitpid
  \/ SysSpawn

SpecSys == InitSys /\ [][NextSys]_vars

(* ------------------- exclusive-access guards and __switch -------------- *)
\* The UPSafeCells: PROCESSOR, TASK_MANAGER and the inner of every TCB.  An
\* operation is followed as the sequence of its borrows (exclusive_access,
\* inner_exclusive_access), of the drops of the guards (explicit, or at the
\* end of the statement for a temporary) and of its calls of __switch.
PROCESSOR_cell == <<"PROCESSOR", 0>>
TASK_MANAGER_cell == <<"TASK_MANAGER", 0>>
inner_cell(t) == <<"inner", t>>

Borrow(cell) == [kind |-> "borrow", cell |-> cell]
DropGuard(cell) == [kind |-> "drop", cell |-> cell]
SwitchCall == [kind |-> "switch", cell |-> <<"", 0>>]
PanicHere == [kind |-> "panic", cell |-> <<"", 0>>]

\* the guards held after the first n events
RECURSIVE Held(_, _)
Held(ev, n) ==
  IF n = 0 THEN {}
  ELSE LET h == Held(ev, n - 1)
       IN IF ev[n].kind = "borrow" THEN h \cup {ev[n].cell}
          ELSE IF ev[n].kind = "drop" THEN h \ {ev[n].cell}
          ELSE h

\* event n halts the kernel: a panic, or the borrow of a cell that is
\* already borrowed (UPSafeCell: BorrowMutError)
Halts(ev, n) ==
  \/ ev[n].kind = "panic"
  \/ ev[n].kind = "borrow" /\ ev[n].cell \in Held(ev, n - 1)

\* the events that are executed: up to the first that halts the kernel
executed(ev) ==
  IF \E n \in DOMAIN ev : Halts(ev, n)
  THEN SubSeq(ev, 1, CHOOSE n \in DOMAIN ev :
                       /\ Halts(ev, n)
                       /\ \A m \in 1 .. n - 1 : ~Halts(ev, m))
  ELSE ev

\* the scan loop of TaskManager::fetch from entry i on
RECURSIVE fetch_scan_guards(_, _)
fetch_scan_guards(q, i) ==
  IF i > Len(q) THEN <<>>
  ELSE <<Borrow(inner_cell(q[i])), DropGuard(inner_cell(q[i]))>>
       \o fetch_scan_guards(q, i + 1)

\* TaskManager::fetch
TaskManager_fetch_guards(q, heap) ==
  LET idx == fetch_scan(q, heap, 1, 0 - 1, 1)
  IN fetch_scan_guards(q, 1) \o
     (IF Len(q) = 0 THEN <<PanicHere>>
      ELSE <<Borrow(inner_cell(q[idx]))>> \o
           (IF heap[q[idx]].priority = 0 THEN <<PanicHere>>
            ELSE <<DropGuard(inner_cell(q[idx]))>>))

\* fetch_task, add_task, take_current_task: a temporary guard
fetch_task_guards(q, heap) ==
  <<Borrow(TASK_MANAGER_cell)>> \o TaskManager_fetch_guards(q, heap)
  \o <<DropGuard(TASK_MANAGER_cell)>>

add_task_guards == <<Borrow(TASK_MANAGER_cell), DropGuard(TASK_MANAGER_cell)>>

take_current_task_guards ==
  <<Borrow(PROCESSOR_cell), DropGuard(PROCESSOR_cell)>>

\* one iteration of run_tasks that fetches from q
run_tasks_guards(q, heap) ==
  LET f == TaskManager_fetch(q, heap)
  IN <<Borrow(PROCESSOR_cell)>> \o fetch_task_guards(q, heap) \o
     (IF f.panic # "" THEN <<>>
      ELSE <<Borrow(inner_cell(f.task[1])), DropGuard(inner_cell(f.task[1])),
             DropGuard(PROCESSOR_cell), SwitchCall>>)

\* schedule
schedule_guards ==
  <<Borrow(PROCESSOR_cell), DropGuard(PROCESSOR_cell), SwitchCall>>

\* Mutant of suspend_guards: task_inner is not dropped before add_task.
suspend_guards_inner_held(t) ==
  take_current_task_guards \o <<Borrow(inner_cell(t))>> \o add_task_guards
  \o schedule_guards

\* suspend_current_and_run_next by the task in slot t
suspend_guards(t) ==
  take_current_task_guards
  \o <<Borrow(inner_cell(t)), DropGuard(inner_cell(t))>>
  \o add_task_guards \o schedule_guards

\* the reparenting loop of exit over the children from entry i on
RECURSIVE reparent_guards(_, _)
reparent_guards(children, i) ==
  IF i > Len(children) THEN <<>>
  ELSE <<Borrow(inner_cell(children[i])), DropGuard(inner_cell(children[i]))>>
       \o reparent_guards(children, i + 1)

\* exit_current_and_run_next by the task in slot t
exit_guards(heap, t, initproc) ==
  take_current_task_guards
  \o <<Borrow(inner_cell(t)), Borrow(inner_cell(initproc))>>
  \o reparent_guards(heap[t].children, 1)
  \o <<DropGuard(inner_cell(initproc)), DropGuard(inner_cell(t))>>
  \o schedule_guards

\* The kernel's operations, with script.events the executed events of the
\* last one.
InitSwitch ==
  /\ tcb = <<>>
  /\ ready_queue = <<>>
  /\ current = <<>>
  /\ PID_ALLOCATOR = [current |-> 0, recycled |-> <<>>]
  /\ INITPROC = <<>>
  /\ kernel_stacks = {}
  /\ panicked = ""
  /\ ret = NoRet
  /\ script = [mode |-> "switch", fn |-> "", events |-> <<>>]

SwitchBoot ==
  /\ script.mode = "switch"
  /\ add_initproc
  /\ script' = [script EXCEPT !.fn = "add_initproc",
                              !.events = executed(add_task_guards)]

SwitchRun ==
  /\ script.mode = "switch"
  /\ run_tasks
  /\ script' = [script EXCEPT
                  !.fn = "run_tasks",
                  !.events = executed(run_tasks_guards(ready_queue, tcb))]

SwitchSuspend ==
  /\ script.mode = "switch"
  /\ suspend_current_and_run_next
  /\ script' = [script EXCEPT
                  !.fn = "suspend_current_and_run_next",
                  !.events = executed(suspend_guards(current[1]))]

SwitchExit ==
  /\ script.mode = "switch"
  /\ \E code \in ExitCodes : exit_current_and_run_next(code)
  /\ script' = [script EXCEPT
                  !.fn = "exit_current_and_run_next",
                  !.events = executed(exit_guards(tcb, current[1],
                                                  INITPROC[1]))]

\* fork, waitpid and set_priority never reach __switch
SwitchCalls ==
  /\ script.mode = "switch"
  /\ \/ sys_fork
     \/ \E target \in WaitTargets : sys_waitpid(target)
     \/ \E prio \in PrioArgs : set_priority(prio)
  /\ script' = [script EXCEPT !.fn = "syscall", !.events = <<>>]

NextSwitch ==
  \/ SwitchBoot
  \/ SwitchRun
  \/ SwitchSuspend
  \/ SwitchExit
  \/ SwitchCalls

SpecSwitch == InitSwitch /\ [][NextSwitch]_vars

(* --------------------- children of a caller that has run --------------- *)
\* The initial process is running with a priority, a pass and a counter of
\* forks drawn from ChildPriorities, ChildPasses and ChildCounts; it and its
\* descendants fork, spawn, yield, exit and wait.
InitChild ==
  /\ \E prio \in ChildPriorities, pass \in ChildPasses, n \in ChildCounts :
       tcb = (1 :> [TaskControlBlock_new(0) EXCEPT
                      !.task_status = "Running",
                      !.priority = prio,
                      !.pass = pass,
                      !.syscall_times[SYSCALL_FORK] = n])
  /\ ready_queue = <<>>
  /\ current = <<1>>
  /\ PID_ALLOCATOR = [current |-> 1, recycled |-> <<>>]
  /\ INITPROC = <<1>>
  /\ kernel_stacks = {0}
  /\ panicked = ""
  /\ ret = NoRet
  /\ script = [mode |-> "child"]

ChildFork == script.mode = "child" /\ sys_fork /\ UNCHANGED script

ChildSpawn ==
  /\ script.mode = "child"
  /\ \E app \in ChildApps : sys_spawn(app)
  /\ UNCHANGED script

ChildYield ==
  /\ script.mode = "child"
  /\ suspend_current_and_run_next
  /\ UNCHANGED script

ChildRun ==
  /\ script.mode = "child"
  /\ run_tasks_upto(MaxChildPass)
  /\ UNCHANGED script

ChildExit ==
  /\ script.mode = "child"
  /\ \E code \in ExitCodes : exit_current_and_run_next(code)
  /\ UNCHANGED script

ChildWaitpid ==
  /\ script.mode = "child"
  /\ sys_waitpid(0 - 1)
  /\ UNCHANGED script

NextChild ==
  \/ ChildFork
  \/ ChildSpawn
  \/ ChildYield
  \/ ChildRun
  \/ ChildExit
  \/ ChildWaitpid

SpecChild == InitChild /\ [][NextChild]_vars

(* ------------------------------ run time ------------------------------- *)
\* get_run_time at clock value now: timer::get_time_us() - start_time of
\* the current task.
get_run_time(now) ==
  /\ panicked = ""
  /\ current # <<>>
  /\ ret' = [op |-> "get_run_time", task |-> current[1], arg |-> now,
             val |-> now - tcb[current[1]].start_time, code |-> 0]
  /\ UNCHANGED <<tcb, ready_queue, current, PID_ALLOCATOR, INITPROC,
                 kernel_stacks, panicked>>

\* The kernel boots at clock value 0 and the clock advances between the
\* operations.  script.now is the clock; script.first holds, for every TCB,
\* the clock value at its first dispatch by run_tasks, if it has had one.
InitTime ==
  /\ tcb = <<>>
  /\ ready_queue = <<>>
  /\ current = <<>>
  /\ PID_ALLOCATOR = [current |-> 0, recycled |-> <<>>]
  /\ INITPROC = <<>>
  /\ kernel_stacks = {}
  /\ panicked = ""
  /\ ret = NoRet
  /\ script = [mode |-> "time", now |-> 0, first |-> [s \in TCBs |-> <<>>]]

TimeTick ==
  /\ script.mode = "time"
  /\ panicked = ""
  /\ script.now < MaxNow
  /\ script' = [script EXCEPT !.now = @ + 1]
  /\ UNCHANGED <<tcb, ready_queue, current, PID_ALLOCATOR, INITPROC,
                 kernel_stacks, panicked, ret>>

TimeBoot == script.mode = "time" /\ add_initproc /\ UNCHANGED script

TimeRun ==
  /\ script.mode = "time"
  /\ run_tasks
  /\ script' = [script EXCEPT
                  !.first = [s \in TCBs |->
                               IF current' = <<s>> /\ @[s] = <<>>
                               THEN <<script.now>> ELSE @[s]]]

TimeYield ==
  /\ script.mode = "time"
  /\ suspend_current_and_run_next
  /\ UNCHANGED script

TimeFork ==
  /\ script.mode = "time"
  /\ sys_fork
  /\ script' = [script EXCEPT !.first[NewSlot(tcb)] = <<>>]

TimeGetRunTime ==
  /\ script.mode = "time"
  /\ get_run_time(script.now)
  /\ UNCHANGED script

NextTime ==
  \/ TimeTick
  \/ TimeBoot
  \/ TimeRun
  \/ TimeYield
  \/ TimeFork
  \/ TimeGetRunTime

SpecTime == InitTime /\ [][NextTime]_vars

(* ====================================================================== *)
(* ----------------------- children of an old caller -------------------- *)
\* The initial process has been dispatched many times at the default
\* priority and is running; it and its children fork and yield.
InitLong ==
  /\ \E pass \in LongPasses :
       tcb = (1 :> [TaskControlBlock_new(0) EXCEPT
                      !.task_status = "Running",
                      !.pass = pass])
  /\ ready_queue = <<>>
  /\ current = <<1>>
  /\ PID_ALLOCATOR = [current |-> 1, recycled |-> <<>>]
  /\ INITPROC = <<1>>
  /\ kernel_stacks = {0}
  /\ panicked = ""
  /\ ret = NoRet
  /\ script = [mode |-> "long"]

LongFork == script.mode = "long" /\ sys_fork /\ UNCHANGED script

LongYield ==
  /\ script.mode = "long"
  /\ suspend_current_and_run_next
  /\ UNCHANGED script

LongRun ==
  /\ script.mode = "long"
  /\ run_tasks_upto(MaxLongPass)
  /\ UNCHANGED script

NextLong ==
  \/ LongFork
  \/ LongYield
  \/ LongRun

SpecLong == InitLong /\ [][NextLong]_vars

(* ------------------------- fetch called for ever ---------------------- *)
\* One iteration of run_tasks with pass kept as its low 8 bits.  fetch reads
\* pass only through ((inner.pass - min_pass) as i8), which depends on the
\* low 8 bits alone, so every fetch selects the same task as with the full
\* usize, and the states of an execution that never ends stay finite.
run_tasks_low8 ==
  /\ panicked = ""
  /\ current = <<>>
  /\ INITPROC # <<>>
  /\ LET f == TaskManager_fetch(ready_queue, tcb)
     IN IF f.panic # ""
        THEN /\ panicked' = f.panic
             /\ UNCHANGED <<tcb, ready_queue, current>>
        ELSE /\ tcb' = [f.heap EXCEPT ![f.task[1]].task_status = "Running",
                                      ![f.task[1]].pass = as_u8(@)]
             /\ ready_queue' = f.queue
             /\ current' = f.task
             /\ UNCHANGED panicked
  /\ ret' = NoRet
  /\ UNCHANGED <<PID_ALLOCATOR, INITPROC, kernel_stacks>>

\* The kernel as main leaves it.  The initial process forks, reaps, sets its
\* priority (2 or more) and yields; the child with pid 1 yields in its first
\* time slice and exits in its second; the other children exit in their
\* first.
InitStarve ==
  /\ tcb = <<>>
  /\ ready_queue = <<>>
  /\ current = <<>>
  /\ PID_ALLOCATOR = [current |-> 0, recycled |-> <<>>]
  /\ INITPROC = <<>>
  /\ kernel_stacks = {}
  /\ panicked = ""
  /\ ret = NoRet
  /\ script = [mode |-> "starve"]

StarveBoot == script.mode = "starve" /\ add_initproc /\ UNCHANGED script

StarveRun == script.mode = "starve" /\ run_tasks_low8 /\ UNCHANGED script

StarveFork ==
  /\ script.mode = "starve"
  /\ current = INITPROC
  /\ sys_fork
  /\ UNCHANGED script

StarveWaitpid ==
  /\ script.mode = "starve"
  /\ current = INITPROC
  /\ sys_waitpid(0 - 1)
  /\ UNCHANGED script

StarveSetPriority ==
  /\ script.mode = "starve"
  /\ current = INITPROC
  /\ \E prio \in StarvePriorities : set_priority(prio)
  /\ UNCHANGED script

\* the task that has the processor is the one with pid 1 in its first time
\* slice: it has been fetched once, at the priority of a new task
StarveFirstSlice ==
  /\ tcb[current[1]].pid = 1
  /\ tcb[current[1]].pass = BIG_STRIDE \div InitPriority

StarveYield ==
  /\ script.mode = "starve"
  /\ current # <<>>
  /\ current = INITPROC \/ StarveFirstSlice
  /\ suspend_current_and_run_next
  /\ UNCHANGED script

StarveExit ==
  /\ script.mode = "starve"
  /\ current # <<>>
  /\ current # INITPROC /\ ~StarveFirstSlice
  /\ \E code \in ExitCodes : exit_current_and_run_next(code)
  /\ UNCHANGED script

NextStarve ==
  \/ StarveBoot
  \/ StarveRun
  \/ StarveFork
  \/ StarveWaitpid
  \/ StarveSetPriority
  \/ StarveYield
  \/ StarveExit

\* run_tasks loops for ever, and the task that has the processor gives it
\* up in the end (a yield, a timer interrupt or its exit): fetch keeps
\* being called.
SpecStarve ==
  /\ InitStarve
  /\ [][NextStarve]_vars
  /\ WF_vars(StarveBoot)
  /\ WF_vars(StarveRun)
  /\ WF_vars(StarveYield)
  /\ WF_vars(StarveExit)

(*                              the claims                                *)
(* ====================================================================== *)
Status(t) == tcb[t].task_status
RunningSet == {t \in Live : Status(t) = "Running"}
\* the children vectors (by owner) that hold slot t
Owners(t) == {p \in Live : t \in Elems(tcb[p].children)}

\* C1: at most one TCB is Running; PROCESSOR.current is Some(t) exactly when
\* t is the Running TCB, and None exactly when no TCB is Running.
C1_OneRunning ==
  /\ Cardinality(RunningSet) <= 1
  /\ \A t \in Live : (current = <<t>>) <=> (Status(t) = "Running")
  /\ (current = <<>>) <=> (RunningSet = {})
  /\ Len(current) <= 1

\* C1 witness: after a fork, a yield and an exit, a task is Running beside a
\* Ready one and a Zombie one.
C1_Witness ==
  /\ \E t \in Live : current = <<t>> /\ Status(t) = "Running"
  /\ \E t \in Live : Status(t) = "Ready"
  /\ \E t \in Live : Status(t) = "Zombie"

\* C2: the ready queue holds exactly the Ready TCBs, each exactly once.
C2_ReadyQueue ==
  /\ Elems(ready_queue) \subseteq Live
  /\ \A t \in Live : (Status(t) = "Ready") <=> (t \in Elems(ready_queue))
  /\ \A t \in Live : Count(ready_queue, t) <= 1

\* C2 witness: two Ready tasks queued while a third runs and, in another
\* state, a Zombie exists; here the queue holds two entries after a yield.
C2_Witness ==
  /\ Len(ready_queue) = 2
  /\ current # <<>>
  /\ tcb[ready_queue[2]].pass > 0

LivePids == {tcb[t].pid : t \in Live}

\* C3: no two live PidHandles carry the same integer, every live pid is
\* below the allocator's counter, and no live pid is in the recycled list.
C3_PidHandles ==
  /\ \A t, u \in Live : t # u => tcb[t].pid # tcb[u].pid
  /\ \A t \in Live : tcb[t].pid < PID_ALLOCATOR.current
  /\ \A t \in Live : tcb[t].pid \notin Elems(PID_ALLOCATOR.recycled)

\* C3 witness: three pids were handed out and one of them has been returned
\* by a reap; two handles are live.
C3_Witness ==
  /\ PID_ALLOCATOR.recycled # <<>>
  /\ Cardinality(Live) = 2
  /\ PID_ALLOCATOR.current = 3
\* C4: an exited task that has a parent stays an unreaped Zombie, owned by
\* exactly one entry of exactly one children vector (not by the ready
\* queue, PROCESSOR.current or the INITPROC static), with its pid and kernel
\* stack its own, until the waitpid of its parent removes it; that step
\* destroys the TCB, returns the pid to the allocator and unmaps the kernel
\* stack, and no other step returns a pid to the allocator.
C4_ZombieOwned ==
  \A t \in Live : (Status(t) = "Zombie" /\ tcb[t].parent # <<>>) =>
    /\ t \notin Elems(ready_queue)
    /\ current # <<t>>
    /\ INITPROC # <<t>>
    /\ Cardinality(Owners(t)) = 1
    /\ \A p \in Owners(t) : Count(tcb[p].children, t) = 1
    /\ Owners(t) = {tcb[t].parent[1]}
    /\ tcb[t].pid \notin Elems(PID_ALLOCATOR.recycled)
    /\ \A u \in Live \ {t} : tcb[u].pid # tcb[t].pid
    /\ tcb[t].pid \in kernel_stacks

C4_Reaped(t) ==
  /\ ret'.op = "waitpid"
  /\ ret'.val = tcb[t].pid
  /\ <<ret'.task>> = tcb[t].parent
  /\ t \notin Elems(tcb'[ret'.task].children)
  /\ t \notin DOMAIN tcb'
  /\ PID_ALLOCATOR'.recycled = Append(PID_ALLOCATOR.recycled, tcb[t].pid)
  /\ kernel_stacks' = kernel_stacks \ {tcb[t].pid}

C4_Kept(t) ==
  /\ t \in DOMAIN tcb'
  /\ tcb'[t].task_status = "Zombie"
  /\ tcb'[t].pid = tcb[t].pid
  /\ tcb'[t].exit_code = tcb[t].exit_code
  /\ tcb[t].pid \notin Elems(PID_ALLOCATOR'.recycled)

C4_Step ==
  /\ \A t \in Live : (Status(t) = "Zombie" /\ tcb[t].parent # <<>>) =>
        (C4_Kept(t) \/ C4_Reaped(t))
  /\ Len(PID_ALLOCATOR'.recycled) > Len(PID_ALLOCATOR.recycled) =>
        /\ ret'.op = "waitpid"
        /\ ret'.val = Last(PID_ALLOCATOR'.recycled)
        /\ \E t \in Live : Status(t) = "Zombie" /\ C4_Reaped(t)

C4_ZombieUntilReaped == [] C4_ZombieOwned /\ [][C4_Step]_vars

\* C4 witness: a waitpid has just reaped a Zombie: its pid is the last of
\* the recycled list, its kernel stack is unmapped and no live TCB has it.
C4_Witness ==
  /\ ret.op = "waitpid"
  /\ ret.val >= 0
  /\ PID_ALLOCATOR.recycled # <<>>
  /\ Last(PID_ALLOCATOR.recycled) = ret.val
  /\ ret.val \notin kernel_stacks
  /\ ret.val \notin LivePids
  /\ \E t \in Live : Status(t) = "Zombie" /\ tcb[t].parent = <<ret.task>>

\* C5: every TCB other than INITPROC has a parent reference that resolves to
\* a live TCB p, is in p.children exactly once and in no other children
\* vector; INITPROC is the only TCB whose parent is None.
C5_ProcessTree ==
  /\ \A t \in Live : (tcb[t].parent = <<>>) <=> (INITPROC = <<t>>)
  /\ \A t \in Live : INITPROC # <<t>> =>
       /\ Len(tcb[t].parent) = 1
       /\ tcb[t].parent[1] \in Live
       /\ Count(tcb[tcb[t].parent[1]].children, t) = 1
       /\ Owners(t) = {tcb[t].parent[1]}
  /\ \A p \in Live : Elems(tcb[p].children) \subseteq Live

\* C5 witness: a task whose parent has exited is now a child of INITPROC,
\* beside the Zombie of that parent.
C5_Witness ==
  /\ Cardinality(Live) = 3
  /\ \E t \in Live, z \in Live :
       /\ t # z
       /\ Status(z) = "Zombie"
       /\ tcb[t].parent = INITPROC
       /\ tcb[z].parent = INITPROC
       /\ tcb[t].pid > tcb[z].pid
       /\ tcb[INITPROC[1]].children = <<z, t>>
\* The step is the exit of t: t held the processor and is a Zombie afterwards.
ExitStepOf(t) ==
  /\ current = <<t>>
  /\ Status(t) = "Running"
  /\ t \in DOMAIN tcb'
  /\ tcb'[t].task_status = "Zombie"

\* What C6 promises of the exit of t.
C6_Post(t) ==
  LET C == tcb[t].children
      ip == INITPROC[1]
  IN /\ \A i \in DOMAIN C : /\ C[i] \in DOMAIN tcb'
                             /\ tcb'[C[i]].parent = <<ip>>
                             /\ C[i] \in Elems(tcb'[ip].children)
     /\ tcb'[ip].children = tcb[ip].children \o C
     /\ tcb'[t].children = <<>>

\* C6: when a task t with children C exits, afterwards every c in C has
\* parent INITPROC and is in INITPROC.children, appended after INITPROC's
\* previous children in t's creation order, and t.children is empty.
C6_ExitReparents ==
  [][\A t \in Live : ExitStepOf(t) => C6_Post(t)]_vars

\* C6, for the tasks whose exit runs to its end (every task but INITPROC).
C6_ExitReparentsOthers ==
  [][\A t \in Live : (ExitStepOf(t) /\ INITPROC # <<t>>) => C6_Post(t)]_vars

\* C6: a task other than INITPROC has exited with a child, which is now
\* the last child of INITPROC.
C6_ReparentedState ==
  \E t \in Live \ Elems(INITPROC) : \E c \in Live \ Elems(INITPROC) :
    /\ t # c
    /\ Status(t) = "Zombie"
    /\ tcb[c].pid > tcb[t].pid
    /\ tcb[c].parent = INITPROC
    /\ tcb[INITPROC[1]].children = <<t, c>>

\* C7: waitpid(target) by p returns -1 with p.children unchanged when no
\* child matches target (its pid, or any child for -1); -2 with p.children
\* unchanged when children match and none of them is a Zombie; otherwise
\* it removes one matching Zombie child from p.children and returns its pid
\* and, to the caller's pointer, its exit code.
C7_Step ==
  ret'.op = "waitpid" =>
    LET p == ret'.task
        target == ret'.arg
        ch == tcb[p].children
        m == {i \in DOMAIN ch : target = 0 - 1 \/ tcb[ch[i]].pid = target}
        z == {i \in m : tcb[ch[i]].task_status = "Zombie"}
    IN /\ current = <<p>>
       /\ m = {} => (ret'.val = 0 - 1 /\ tcb'[p].children = ch)
       /\ (m # {} /\ z = {}) => (ret'.val = 0 - 2 /\ tcb'[p].children = ch)
       /\ z # {} => \E i \in z : /\ tcb'[p].children = RemoveAt(ch, i)
                                  /\ ret'.val = tcb[ch[i]].pid
                                  /\ ret'.code = tcb[ch[i]].exit_code
       /\ (m = {} \/ z = {}) => tcb' = tcb

C7_Waitpid == [][C7_Step]_vars

\* C7 witness: waitpid(-1) has reaped a Zombie and returned its exit code
\* while another child of the caller, not a Zombie, stays in children.
C7_Witness ==
  /\ ret.op = "waitpid"
  /\ ret.arg = 0 - 1
  /\ ret.val >= 1
  /\ ret.code \in ExitCodes
  /\ tcb[ret.task].children # <<>>
  /\ \A c \in Elems(tcb[ret.task].children) : Status(c) = "Ready"

\* The TCB created by the step, if the step creates one.
Created == DOMAIN tcb' \ DOMAIN tcb

C9_Step ==
  /\ \A s \in Created :
       IF PID_ALLOCATOR.recycled # <<>>
       THEN /\ tcb'[s].pid = Last(PID_ALLOCATOR.recycled)
            /\ PID_ALLOCATOR'.recycled = Front(PID_ALLOCATOR.recycled)
            /\ PID_ALLOCATOR'.current = PID_ALLOCATOR.current
       ELSE /\ tcb'[s].pid = PID_ALLOCATOR.current
            /\ PID_ALLOCATOR'.current = PID_ALLOCATOR.current + 1
            /\ PID_ALLOCATOR'.recycled = <<>>
  /\ PID_ALLOCATOR'.current # PID_ALLOCATOR.current =>
       (PID_ALLOCATOR.recycled = <<>> /\ Created # {})
  /\ \A k \in Elems(PID_ALLOCATOR.recycled) :
       \/ k \in Elems(PID_ALLOCATOR'.recycled)
       \/ \E s \in Created : tcb'[s].pid = k

\* C9: pid_alloc returns the most recently recycled pid when the recycled
\* list is not empty and otherwise the counter, which it increments; the
\* first allocation, INITPROC's, is 0; a reaped pid stays in the recycled
\* list until a pid_alloc returns it, and the counter does not advance while
\* the list is not empty.
C9_PidAlloc ==
  /\ [](\A t \in Live : (INITPROC = <<t>>) <=> (tcb[t].pid = 0))
  /\ [][C9_Step]_vars

\* C9 witness: a fork has just been given the recycled pid 1 while pid 2 is
\* live, so the counter stays at 3.
C9_Witness ==
  /\ ret.op = "fork"
  /\ ret.val = 1
  /\ 2 \in LivePids
  /\ PID_ALLOCATOR.current = 3
  /\ PID_ALLOCATOR.recycled = <<>>
\* C8: a parent that forks a child and then keeps calling waitpid for it,
\* yielding whenever the answer is -2, while the child exits with code c:
\* under fair dispatching waitpid eventually returns the child's pid with
\* exit code c; and no waitpid returns the child's pid or its exit code
\* unless the child was a Zombie when it was called.
C8_ChildOf(pid) == {c \in Live : tcb[c].pid = pid}

C8_NotBeforeZombie ==
  (ret'.op = "waitpid" /\ ret' # ret /\ ret'.val >= 0)
    => /\ current # <<>>
       /\ \E c \in C8_ChildOf(ret'.val) :
            /\ c \in Elems(tcb[current[1]].children)
            /\ Status(c) = "Zombie"
            /\ tcb[c].exit_code = ret'.code

C8_Answer ==
  script.parent = "done"
    => /\ ret.op = "waitpid"
       /\ ret.val = script.childpid
       /\ ret.code = script.code

C8_Step ==
  /\ C8_NotBeforeZombie
  /\ script'.parent = "done" /\ script.parent # "done" => C8_Answer'

C8_WaitReturns ==
  /\ <>(script.parent = "done")
  /\ [](script.parent # "failed")
  /\ [][C8_Step]_vars

\* the parent has been answered with the child's pid and code after at
\* least one answer of -2 and a yield, and after a timer interrupt
C8_Witness ==
  /\ script.mode = "wait"
  /\ script.parent = "done"
  /\ script.retries > 0
  /\ script.ticks > 0
  /\ ret.op = "waitpid"
  /\ ret.val = script.childpid
  /\ ret.code = script.code
  /\ script.child[1] \notin Live

\* the running minimum (an index of passes ps) after entries 1 .. n have
\* been scanned: entry n replaces it only when the difference of the passes,
\* cut to 8 bits, has its sign bit set
RECURSIVE C10_RunningMin(_, _)
C10_RunningMin(ps, n) ==
  IF n = 1 THEN 1
  ELSE LET m == C10_RunningMin(ps, n - 1)
       IN IF (ps[n] - ps[m]) % 256 >= 128 THEN n ELSE m

C10_Selected ==
  C10_RunningMin([i \in DOMAIN ready_queue |-> tcb[ready_queue[i]].pass],
                 Len(ready_queue))

\* a step of the idle flow that fetches from a non-empty queue
C10_IsFetch ==
  /\ panicked = ""
  /\ current = <<>>
  /\ INITPROC # <<>>
  /\ ready_queue # <<>>
  /\ <<tcb, ready_queue, current, panicked>>' #
       <<tcb, ready_queue, current, panicked>>

C10_Returned ==
  LET t == ready_queue[C10_Selected]
  IN /\ panicked' = ""
     /\ current' = <<t>>
     /\ ready_queue' = RemoveAt(ready_queue, C10_Selected)
     /\ DOMAIN tcb' = DOMAIN tcb
     /\ tcb'[t].pass = tcb[t].pass + (BIG_STRIDE \div tcb[t].priority)
     /\ \A u \in Live \ {t} : tcb'[u].pass = tcb[u].pass

\* C10: on every non-empty ready queue fetch removes and returns the entry
\* found by the left-to-right scan (entry 0 is the running minimum, entry i
\* replaces it only when ((pass_i - running minimum) as i8) < 0) and adds
\* BIG_STRIDE / priority to the pass of that entry; every other entry keeps
\* its pass and the entries keep their relative order.
C10_Fetch == [][C10_IsFetch => C10_Returned]_vars

\* the same for the queues whose selected entry has a priority that is not 0
C10_FetchWithPriority ==
  [][C10_IsFetch /\ tcb[ready_queue[C10_Selected]].priority # 0
       => C10_Returned]_vars

\* an entry that is not the head and whose pass is numerically larger than
\* the head's has been selected from a queue of three
C10_FetchedState ==
  /\ script.mode = "fetch"
  /\ current # <<>>
  /\ Len(ready_queue) = 2
  /\ ready_queue[1] < current[1]
  /\ tcb[current[1]].pass > tcb[ready_queue[1]].pass + BIG_STRIDE

\* C11: when the ready queue is empty, fetch returns none without failing
\* and leaves the queue and every TCB unchanged, so that the dispatch loop
\* iterates again.
C11_Step ==
  (panicked = "" /\ current = <<>> /\ ready_queue = <<>>)
    => /\ panicked' = ""
       /\ current' = <<>>
       /\ UNCHANGED <<tcb, ready_queue>>

C11_EmptyFetch == [][C11_Step]_vars

\* the stride of the task in slot t, and how often it has been selected
C12_Stride(t) == BIG_STRIDE \div tcb[t].priority
C12_Count(t) == script.selected[t]
C12_Abs(x) == IF x < 0 THEN 0 - x ELSE x

\* after 600 fetch calls a task of priority 4 has been selected about 400
\* times and a task of priority 2 about 200 times: 2 : 1 within 5%
C12_Scenario ==
  \A a, b \in Live :
    (script.fetches = 600 /\ tcb[a].priority = 2 /\ tcb[b].priority = 4)
      => /\ 19 * C12_Count(a) <= 10 * C12_Count(b)
         /\ 10 * C12_Count(b) <= 21 * C12_Count(a)
         /\ C12_Abs(C12_Count(b) - 400) <= 20
         /\ C12_Abs(C12_Count(a) - 200) <= 10

\* C12 (as stated): the same for every two priorities p1 and p2: after 600
\* fetch calls the selection counts are in the ratio p1 : p2 within 5%.
C12_RatioOfPriorities ==
  \A a, b \in Live :
    script.fetches = 600
      => 100 * C12_Abs(C12_Count(a) * tcb[b].priority
                       - C12_Count(b) * tcb[a].priority)
           <= 5 * C12_Count(b) * tcb[a].priority

\* C12 (amended): with priorities 2 and 4 the counts after 600 fetch calls
\* are 2 : 1 within 5%; in general the selection counts of two always-ready
\* tasks approach the inverse ratio of their strides BIG_STRIDE div p: the
\* passes count * stride of the two never differ by more than the larger
\* stride.
C12_StrideFairness ==
  /\ C12_Scenario
  /\ \A a, b \in Live :
       /\ tcb[a].pass = C12_Count(a) * C12_Stride(a)
       /\ C12_Abs(tcb[a].pass - tcb[b].pass)
            <= (IF C12_Stride(a) > C12_Stride(b) THEN C12_Stride(a)
                ELSE C12_Stride(b))

\* 600 fetch calls have been made with priorities 2 and 4, and the task of
\* priority 4 has been selected more than twice as often
C12_Witness ==
  /\ script.mode = "stride"
  /\ script.fetches = 600
  /\ tcb[1].priority = 2
  /\ tcb[2].priority = 4
  /\ script.selected[2] > 2 * script.selected[1]
  /\ script.selected[1] + script.selected[2] = 600

\* C13: in every reachable state, after any task creations and any
\* set_priority calls, every TCB's priority is at least 2, so that the
\* division BIG_STRIDE / priority in fetch is defined and the stride is at
\* most BIG_STRIDE / 2.
C13_PriorityAtLeast2 ==
  \A t \in Live :
    /\ tcb[t].priority >= 2
    /\ BIG_STRIDE \div tcb[t].priority <= BIG_STRIDE \div 2

\* a step in which the running task calls set_priority
C14_IsCall ==
  /\ ret'.op = "set_priority"
  /\ current # <<>>
  /\ ret'.task = current[1]
  /\ <<ready_queue, current, PID_ALLOCATOR, INITPROC, kernel_stacks,
       panicked>>' =
     <<ready_queue, current, PID_ALLOCATOR, INITPROC, kernel_stacks,
       panicked>>
  /\ DOMAIN tcb' = DOMAIN tcb

\* C14: set_priority(p) returns -1 and leaves the caller's priority as it
\* was when p < 2; for every p >= 2 it returns p and the caller's stored
\* priority becomes p, which is the priority the next fetch divides
\* BIG_STRIDE by; no other TCB's priority or pass is changed.
C14_Step ==
  C14_IsCall =>
    LET p == ret'.arg
        t == current[1]
    IN /\ \A u \in Live \ {t} : tcb'[u] = tcb[u]
       /\ tcb'[t].pass = tcb[t].pass
       /\ p < 2 => ret'.val = 0 - 1 /\ tcb'[t].priority = tcb[t].priority
       /\ p >= 2 => ret'.val = p /\ tcb'[t].priority = p

C14_SetPriority == [][C14_Step]_vars

\* the pages that meet the bytes [start, start + len)
C15_Pages(start, len) ==
  {v \in 0 .. 63 : v * PAGE_SIZE < start + len /\ (v + 1) * PAGE_SIZE > start}

\* the permissions a port asks for, and those an entry of the page table has
C15_Requested(port) ==
  {"U"} \cup (IF port % 2 = 1 THEN {"R"} ELSE {})
        \cup (IF (port \div 2) % 2 = 1 THEN {"W"} ELSE {})
        \cup (IF (port \div 4) % 2 = 1 THEN {"X"} ELSE {})

C15_Flags(perm) ==
  (IF (perm \div MapPermission_R) % 2 = 1 THEN {"R"} ELSE {})
  \cup (IF (perm \div MapPermission_W) % 2 = 1 THEN {"W"} ELSE {})
  \cup (IF (perm \div MapPermission_X) % 2 = 1 THEN {"X"} ELSE {})
  \cup (IF (perm \div MapPermission_U) % 2 = 1 THEN {"U"} ELSE {})

C15_IsCall ==
  /\ ret'.op = "mmap"
  /\ current # <<>>
  /\ current' = current

\* every call of mmap: rejected with -1 and nothing changed, or the pages
\* mapped with the permissions asked for and 0 returned
C15_Step ==
  C15_IsCall =>
    LET start == ret'.arg[1]
        len == ret'.arg[2]
        port == ret'.arg[3]
        t == current[1]
        before == page_table(tcb[t].memory_set)
        after == page_table(tcb'[t].memory_set)
        rejected == \/ start % PAGE_SIZE # 0
                    \/ port >= 8
                    \/ port % 8 = 0
                    \/ C15_Pages(start, len) \cap DOMAIN before # {}
    IN IF rejected
       THEN ret'.val = 0 - 1 /\ tcb' = tcb
       ELSE /\ ret'.val = 0
            /\ DOMAIN after = DOMAIN before \cup C15_Pages(start, len)
            /\ \A v \in DOMAIN before : after[v] = before[v]
            /\ \A v \in C15_Pages(start, len) :
                 C15_Flags(after[v]) = C15_Requested(port)
            /\ [tcb' EXCEPT ![t].memory_set = tcb[t].memory_set] = tcb

\* the call that has just returned 0 is made again
C15_Again ==
  /\ ret.op = "mmap"
  /\ ret.val = 0
  /\ ret'.op = "mmap"
  /\ ret'.arg = ret.arg

\* C15 (as stated): mmap returns -1 and leaves the caller's address space
\* unchanged when start is not page-aligned, or port has a bit outside the
\* low three, or the low three bits are all zero, or a page of
\* [start, start + len) is already mapped; otherwise it maps exactly those
\* pages with the R/W/X bits of port plus User and returns 0; so the same
\* valid call made twice returns 0 and then -1.
C15_Mmap == [][C15_Step /\ (C15_Again => ret'.val = 0 - 1)]_vars

\* C15 (amended): the same, the last part for calls with len > 0: the same
\* valid call with len > 0 made twice returns 0 and then -1 (with len = 0 no
\* page is mapped and both calls return 0).
C15_MmapAmended ==
  [][/\ C15_Step
     /\ C15_Again /\ ret.arg[2] > 0 => ret'.val = 0 - 1
     /\ C15_Again /\ ret.arg[2] = 0 => ret'.val = 0]_vars

\* mmap(0x10000, 0x1001, R|X) has mapped pages 16 and 17 readable,
\* executable and user, and the same call has then been rejected
C15_Witness ==
  /\ script.mode = "mem"
  /\ ret.op = "mmap"
  /\ ret.arg = <<65536, 4097, 5>>
  /\ ret.val = 0 - 1
  /\ tcb[1].memory_set = <<[start |-> 18, end |-> 19, perm |-> 26],
                           [start |-> 16, end |-> 18, perm |-> 26]>>

\* munmap(start, len) is called right after mmap(start, len, port) returned 0
C16_IsCall ==
  /\ ret.op = "mmap"
  /\ ret.val = 0
  /\ ret'.op = "munmap"
  /\ ret'.arg[1] = ret.arg[1]
  /\ ret'.arg[2] = ret.arg[2]
  /\ current # <<>>
  /\ current' = current

C16_Step ==
  C16_IsCall =>
    /\ ret'.val = 0
    /\ page_table(tcb'[current[1]].memory_set) = script.before

\* C16: for every aligned start, every len and every valid port, if mmap
\* returns 0 then the munmap(start, len) that immediately follows returns 0
\* and the set of mapped pages is exactly what it was before the mmap.
C16_MmapMunmap == [][C16_Step]_vars

\* the counters of every TCB are the numbers of syscalls it has issued
C17_Counted ==
  script.mode = "sys" =>
    \A t \in DOMAIN tcb : \A k \in SyscallIds :
      tcb[t].syscall_times[k] = script.issued[t][k]

\* a step changes no counter but that of the id the running task issues, at
\* the entry of the handler and before the call is carried out; a TCB
\* created by the step has all counters zero
C17_Step ==
  script.mode = "sys" =>
    /\ \A t \in DOMAIN tcb \cap DOMAIN tcb' : \A k \in SyscallIds :
         tcb'[t].syscall_times[k] # tcb[t].syscall_times[k] =>
           /\ current = <<t>>
           /\ script.pending = <<>>
           /\ script'.pending = <<k>>
           /\ tcb'[t].syscall_times[k] = tcb[t].syscall_times[k] + 1
    /\ \A t \in DOMAIN tcb' \ DOMAIN tcb :
         tcb'[t].syscall_times = NoSyscalls

\* C17: for every task t and syscall id k, t.syscall_times[k] is the number
\* of syscalls with id k that t has issued since it was created, each
\* counted before it is dispatched (whether or not it then fails, or does
\* not return, like yield); the syscalls of other tasks never change t's
\* counters, and a forked or spawned child starts with every counter zero.
C17_SyscallTimes == []C17_Counted /\ [][C17_Step]_vars

\* a parent has forked and yielded, its child has yielded and then issued
\* an exec that is counted and not yet carried out
C17_Witness ==
  /\ script.mode = "sys"
  /\ \E t \in DOMAIN tcb, u \in DOMAIN tcb :
       /\ tcb[u].parent = <<t>>
       /\ tcb[t].syscall_times[SYSCALL_FORK] = 1
       /\ tcb[t].syscall_times[SYSCALL_YIELD] = 1
       /\ tcb[u].syscall_times[SYSCALL_YIELD] = 1
       /\ tcb[u].syscall_times[SYSCALL_FORK] = 0
       /\ tcb[u].syscall_times[SYSCALL_EXEC] = 1
       /\ current = <<u>>
       /\ script.pending = <<SYSCALL_EXEC>>

\* the exec of an application that exists, by the running task
C18_IsCall ==
  /\ script.mode = "sys"
  /\ script.pending = <<SYSCALL_EXEC>>
  /\ ret'.op = "exec"
  /\ ret'.val = 0

C18_Step ==
  C18_IsCall =>
    LET t == current[1]
        elf == from_elf(ret'.arg)
    IN /\ DOMAIN tcb' = DOMAIN tcb
       /\ \A u \in DOMAIN tcb \ {t} : tcb'[u] = tcb[u]
       /\ tcb'[t].memory_set = elf.memory_set
       /\ tcb'[t].trap_cx_ppn = <<tcb[t].pid, ret'.arg>>
       /\ tcb'[t].trap_cx.entry_point = elf.entry_point
       /\ tcb'[t].trap_cx.user_sp = elf.user_sp
       /\ tcb'[t].trap_cx.kernel_sp = tcb[t].pid
       /\ tcb'[t].pid = tcb[t].pid
       /\ tcb'[t].priority = tcb[t].priority
       /\ tcb'[t].pass = tcb[t].pass
       /\ tcb'[t].syscall_times = tcb[t].syscall_times
       /\ tcb'[t].start_time = tcb[t].start_time
       /\ tcb'[t].parent = tcb[t].parent
       /\ tcb'[t].children = tcb[t].children
       /\ tcb'[t].exit_code = tcb[t].exit_code
       /\ tcb'[t].task_status = tcb[t].task_status
       /\ tcb'[t].base_size = tcb[t].base_size
       /\ kernel_stacks' = kernel_stacks
       /\ ready_queue' = ready_queue
       /\ current' = current
       /\ PID_ALLOCATOR' = PID_ALLOCATOR
       /\ INITPROC' = INITPROC

\* C18: exec replaces only the caller's memory_set, trap_cx_ppn and trap
\* frame; its pid, kernel stack, priority, pass, syscall_times, start_time,
\* parent, children, exit_code and task_status are unchanged, and the ready
\* queue and every other TCB are not modified.
C18_Exec == [][C18_Step]_vars

\* a task that has been dispatched (pass above 0) and has a child and a
\* sibling in the ready queue has exec'ed ch5b_user
C18_Witness ==
  /\ script.mode = "sys"
  /\ ret.op = "exec"
  /\ ret.val = 0
  /\ current = <<ret.task>>
  /\ tcb[ret.task].trap_cx_ppn[2] = "ch5b_user"
  /\ tcb[ret.task].memory_set = from_elf("ch5b_user").memory_set
  /\ tcb[ret.task].pass > 0
  /\ tcb[ret.task].children # <<>>
  /\ tcb[ret.task].syscall_times[SYSCALL_EXEC] = 1
  /\ ready_queue # <<>>

\* the kernel halts in an operation exactly when one of its events does
C19_HaltsAgree ==
  script.mode = "switch" /\ script.events # <<>> =>
    (panicked # "" <=> Halts(script.events, Len(script.events)))

\* C19: no exclusive-access guard (of PROCESSOR, of TASK_MANAGER, of the
\* inner of any TCB) is held at any call of __switch made by run_tasks,
\* schedule, suspend_current_and_run_next or exit_current_and_run_next.
C19_NoGuardAtSwitch ==
  script.mode = "switch" =>
    \A n \in DOMAIN script.events :
      script.events[n].kind = "switch" => Held(script.events, n - 1) = {}

\* an exit that has reparented a child under the guards of the exiting task
\* and of the initial process has reached the __switch of schedule
C19_Witness ==
  /\ script.mode = "switch"
  /\ script.fn = "exit_current_and_run_next"
  /\ panicked = ""
  /\ script.events[Len(script.events)].kind = "switch"
  /\ \E n \in DOMAIN script.events :
       /\ script.events[n].kind = "borrow"
       /\ Cardinality(Held(script.events, n)) = 3

\* a step of suspend_current_and_run_next: the task is Ready, at the tail
\* of the ready queue, and PROCESSOR.current is None
C20_SuspendStep ==
  /\ script.mode = "switch"
  /\ current # <<>>
  /\ script'.fn = "suspend_current_and_run_next"
  => /\ tcb'[current[1]].task_status = "Ready"
     /\ ready_queue' = Append(ready_queue, current[1])
     /\ current' = <<>>

\* the iteration of run_tasks that follows the suspension of the only
\* runnable task dispatches that task
C20_RedispatchStep ==
  /\ script.mode = "switch"
  /\ script.fn = "suspend_current_and_run_next"
  /\ Len(ready_queue) = 1
  /\ script'.fn = "run_tasks"
  => /\ panicked' = ""
     /\ current' = ready_queue
     /\ tcb'[ready_queue[1]].task_status = "Running"

\* C20: suspend_current_and_run_next sets the current task's status to
\* Ready, appends it at the tail of the ready queue and leaves
\* PROCESSOR.current = None; when that task is the only runnable task, the
\* next task dispatched by run_tasks is the same task, so it simply
\* continues executing.
C20_Suspend == [][C20_SuspendStep /\ C20_RedispatchStep]_vars

\* the first half of C20 alone
C20_SuspendOnly == [][C20_SuspendStep]_vars

\* a step of fork or spawn that has created a child
C21_IsCall ==
  /\ ret'.op \in {"fork", "spawn"}
  /\ current # <<>>
  /\ DOMAIN tcb' # DOMAIN tcb

C21_Step ==
  C21_IsCall =>
    LET p == current[1]
        c == CHOOSE c \in DOMAIN tcb' : c \notin DOMAIN tcb
    IN /\ DOMAIN tcb' = DOMAIN tcb \cup {c}
       /\ \A u \in DOMAIN tcb : tcb'[c].pid # tcb[u].pid
       /\ tcb'[c].task_status = "Ready"
       /\ tcb'[c].parent = <<p>>
       /\ tcb'[c].children = <<>>
       /\ tcb'[c].exit_code = 0
       /\ tcb'[c].priority = 16
       /\ tcb'[c].pass = 0
       /\ \A k \in SyscallIds : tcb'[c].syscall_times[k] = 0
       /\ tcb'[p].children = Append(tcb[p].children, c)
       /\ tcb'[p].pid = tcb[p].pid
       /\ tcb'[p].task_status = tcb[p].task_status
       /\ tcb'[p].priority = tcb[p].priority
       /\ tcb'[p].pass = tcb[p].pass

\* C21: a child created by fork or spawn has a pid different from every live
\* pid, status Ready, the caller as parent, no children, exit_code 0,
\* priority 16, pass 0 and zeroed syscall counters, whatever the caller's
\* priority, pass and counters; it is appended as the last element of the
\* caller's children, and the caller's pid, status, priority and pass are
\* unchanged.
C21_Child == [][C21_Step]_vars

\* a caller with priority 20, pass above 20, three forks counted and one child
\* already has just got a second child, which has the pid of a reaped one
C21_Witness ==
  /\ script.mode = "child"
  /\ ret.op \in {"fork", "spawn"}
  /\ current = <<ret.task>>
  /\ tcb[ret.task].priority = 20
  /\ tcb[ret.task].pass > 20
  /\ tcb[ret.task].syscall_times[SYSCALL_FORK] = 3
  /\ Len(tcb[ret.task].children) = 2
  /\ LET c == tcb[ret.task].children[2]
     IN /\ tcb[c].pid = ret.val
        /\ tcb[c].priority = 16
        /\ tcb[c].pass = 0
        /\ tcb[c].pid < PID_ALLOCATOR.current - 1

\* C22: once a task has been dispatched for the first time by run_tasks its
\* start_time is the clock value of that dispatch, and stays so; get_run_time
\* reports the time elapsed since that first dispatch.
C22_StartTime ==
  script.mode = "time" =>
    /\ \A t \in DOMAIN tcb :
         script.first[t] # <<>> => tcb[t].start_time = script.first[t][1]
    /\ ret.op = "get_run_time" =>
         ret.val = ret.arg - script.first[ret.task][1]

\* C23: no exclusive-access cell is acquired while it is already borrowed,
\* in any operation of the kernel, and exit_current_and_run_next completes
\* (reaches the __switch of schedule) for every current task, the initial
\* process included.
C23_NoDoubleBorrow ==
  script.mode = "switch" =>
    /\ \A n \in DOMAIN script.events :
         script.events[n].kind = "borrow" =>
           script.events[n].cell \notin Held(script.events, n - 1)
    /\ script.fn = "exit_current_and_run_next" =>
         /\ panicked # "already borrowed: BorrowMutError"
         /\ script.events[Len(script.events)].kind = "switch"

\* a call of munmap by the running task that returns 0
C24_IsCall ==
  /\ ret'.op = "munmap"
  /\ ret'.val = 0
  /\ current # <<>>
  /\ current' = current

C24_Step ==
  C24_IsCall =>
    LET range == mmap_range(ret'.arg[1], ret'.arg[2])
        before == DOMAIN page_table(tcb[current[1]].memory_set)
        after == DOMAIN page_table(tcb'[current[1]].memory_set)
    IN /\ after \cap range = {}
       /\ before \ range \subseteq after

\* C24: whenever munmap(start, len) returns 0, afterwards no page of
\* [start, start+len) is mapped and every page outside the range that was
\* mapped before is still mapped, also when the range is only a part of a
\* region that one mmap of several pages created.
C24_Munmap == [][C24_Step]_vars

\* the passes of any two TCBs of the ready queue differ by at most 127
C26_Spread ==
  \A i, j \in DOMAIN ready_queue :
    tcb[ready_queue[i]].pass - tcb[ready_queue[j]].pass <= 127

\* a dispatch takes a TCB whose pass is numerically minimal in the queue
C26_FetchStep ==
  (current = <<>> /\ current' # <<>>) =>
    \A i \in DOMAIN ready_queue :
      tcb[current'[1]].pass <= tcb[ready_queue[i]].pass

\* C26: in every reachable state the passes of any two TCBs of the ready
\* queue differ by at most 127, so that fetch returns a TCB whose pass is
\* numerically minimal, also right after a task that has run for long forks
\* a child (which starts at pass 0).
C26_PassSpread == []C26_Spread /\ [][C26_FetchStep]_vars

\* C25: no starvation: whatever the yields, forks, exits and set_priority
\* calls (with priorities of 2 or more), a task that is in the ready queue
\* is eventually returned by fetch, as long as fetch keeps being called.
C25_NoStarvation ==
  \A t \in TCBs :
    (script.mode = "starve" /\ t \in Elems(ready_queue)) ~> (current = <<t>>)

====
